---- MODULE Spec2Model ----
(***************************************************************************)
(* FreeListAllocator<ONE_MEM_POOL_SIZE> and its nested FreeListMemoryPool  *)
(* (src/memory_management/reference_counting_gc/include/object_module.h,   *)
(* lines 146-326), modelled over an explicit word-addressed memory.        *)
(*                                                                         *)
(* Object<T> and MakeObject (lines 9-133) are modelled by ObjSpec.         *)
(*                                                                         *)
(* The allocator specifications share the definitions below.               *)
(*   Spec      the allocator as it is written: a pool is the raw result of *)
(*             mmap reinterpreted as a FreeListMemoryPool (line 313); no   *)
(*             constructor runs on it, so its fields are the zero bytes of *)
(*             an anonymous mapping.                                       *)
(*   PoolSpec  the class FreeListMemoryPool alone: one pool object built   *)
(*             by its own constructor (lines 160-164, 241-242) in a mapped *)
(*             region, driven through Allocate, Free and VerifyPtr.        *)
(*   ConstructedSpec  the allocator with that constructor run on every     *)
(*             pool it maps.                                               *)
(*                                                                         *)
(* Memory is a map from byte address to the machine word stored there;     *)
(* an absent address holds zero.  PoolSpec draws request sizes that are    *)
(* multiples of the word size, so every header access is word-aligned and  *)
(* the word map is exact.  A load or store outside every mapped region is  *)
(* a segmentation fault (pc = "segv").                                     *)
(***************************************************************************)
EXTENDS Integers, Sequences, FiniteSets, TLC

VARIABLES
    poolSize,    \* template parameter ONE_MEM_POOL_SIZE
    psize,       \* getpagesize()
    regions,     \* the mappings of the process, in the order they were made
    mem,         \* memory: byte address -> non-zero word stored there
    firstPool_,  \* FreeListAllocator::firstPool_ (PoolSpec: the pool, `this`)
    pc,          \* "idle" | "growing" (inside Allocate's while) | "segv" | "hang"
                 \* | "destroyed" | "bad_alloc"
    pool,        \* Allocate's local `pool` while pc = "growing"
    size,        \* Allocate's local `size` while pc = "growing"
    hist,        \* the calls made so far, each with what it returned
    live,        \* pointers returned by Allocate and not yet passed to Free
    handed,      \* every pointer Allocate has returned
    handles,     \* Object<T> variables of the program: alive, ptr_, header_
    heap         \* per managed object k: its Header (rc, ptr) and what has
                 \* been done to the T it stands for

vars == <<poolSize, psize, regions, mem, firstPool_, pc, pool, size, hist, live,
          handed, handles, heap>>

(* ------------------------------ bounds -------------------------------- *)

\* mmap succeeds at most this many times; after that it reports failure.
MaxMaps == 3
\* calls made on one allocator / pool.
MaxCalls == 5
\* Object<T> variables in scope at once.
MaxHandles == 3
\* managed objects created in one run.
MaxObjects == 3

(* --------------------------- machine model ---------------------------- *)

\* size_t and pointers are WORD-valued; arithmetic wraps.
WORD == 2 ^ 20

NULL == 0
OCCUPIED_BLOCK == 0
MAP_FAILED == WORD - 1
SizeofBlock == 16
SizeofPool == 16
\* field offsets: Block { next; size }, FreeListMemoryPool { nextPool; freeListHead_ }
OffNext == 0
OffSize == 8
OffNextPool == 0
OffHead == 8

Add(a, b) == (a + b) % WORD
Sub(a, b) == (a - b + WORD) % WORD
Mul(a, b) == (a * b) % WORD

Rd(m, a) == IF a \in DOMAIN m THEN m[a] ELSE 0

Wr(m, a, v) ==
    IF v = 0
    THEN [x \in DOMAIN m \ {a} |-> m[x]]
    ELSE [x \in DOMAIN m \cup {a} |-> IF x = a THEN v ELSE m[x]]

\* the 8-byte word at address a lies inside one mapping
Mapped(rs, a) ==
    \E i \in 1..Len(rs) : rs[i].base <= a /\ a + 8 <= rs[i].base + rs[i].len

\* where the k-th mapping of the process is placed
MapStride == 2 ^ 16
MapBase(k) == k * MapStride

(* ----------------------- Object<T> and MakeObject ---------------------- *)
(* A managed object is identified by a number k in 1..MaxObjects; NULL is  *)
(* the null pointer.  heap[k] holds the Header that was new'd for k (rc,   *)
(* ptr, and whether it is still allocated) together with the number of     *)
(* times ~T() has run on k and the number of times k was deleted.          *)
(* Every raw pointer given to Object(T* ptr) or Reset points to a         *)
(* distinct,                                                               *)
(* freshly new'd T.  The code is single-threaded: an action is one whole   *)
(* member function, temporaries included.                                  *)

Handles == 1..MaxHandles
Objects == 1..MaxObjects

NoHandles == [h \in Handles |-> [alive |-> FALSE, ptr_ |-> NULL, header_ |-> NULL]]
NoObjects ==
    [k \in Objects |-> [made |-> FALSE, allocated |-> FALSE, rc |-> 0,
                        ptr |-> NULL, dtors |-> 0, deletes |-> 0]]

allocVars ==
    <<poolSize, psize, regions, mem, firstPool_, pc, pool, size, hist, live,
      handed>>

\* the next T the program creates
Fresh(hp) == CHOOSE k \in Objects : ~hp[k].made /\ \A j \in 1..(k - 1) : hp[j].made
HasFresh(hp) == \E k \in Objects : ~hp[k].made

\* a copy that leaves the count alone
AcquireNothing(hp, hd) == hp

\* `if (header_) header_->rc++`, lines 42-44 and 58-60.
Acquire(hp, hd) ==
    IF hd = NULL THEN hp ELSE [hp EXCEPT ![hd].rc = Add(@, 1)]

\* ~Object() on a handle holding (p, hd), lines 25-38.
Release(hp, p, hd) ==
    IF hd = NULL THEN hp
    ELSE LET h1 == [hp EXCEPT ![hd].rc = Sub(@, 1)]
             \* ptr_->~T()
             h2 == [h1 EXCEPT ![p].dtors = @ + 1]
             \* delete header_->ptr: ~T() again, then operator delete
             q == h2[hd].ptr
             h3 == IF q = NULL THEN h2
                   ELSE [h2 EXCEPT ![q].dtors = @ + 1, ![q].deletes = @ + 1]
         IN  IF h1[hd].rc # 0 THEN h1
             ELSE [h3 EXCEPT ![hd].allocated = FALSE]

\* new Header with rc = 1 for object k; ptr is what the destructor deletes.
NewHeader(hp, k, ptr) ==
    [hp EXCEPT ![k] = [made |-> TRUE, allocated |-> TRUE, rc |-> 1,
                       ptr |-> ptr, dtors |-> 0, deletes |-> 0]]

Holding(p, hd) == [alive |-> TRUE, ptr_ |-> p, header_ |-> hd]

\* Object() and Object(std::nullptr_t), lines 15 and 23.
Object_Default(h) ==
    /\ ~handles[h].alive
    /\ handles' = [handles EXCEPT ![h] = Holding(NULL, NULL)]
    /\ UNCHANGED <<heap, allocVars>>

\* Object(T *ptr), lines 17-21.
Object_Raw(h) ==
    /\ ~handles[h].alive
    /\ HasFresh(heap)
    /\ LET k == Fresh(heap)
       IN  /\ heap' = NewHeader(heap, k, k)
           /\ handles' = [handles EXCEPT ![h] = Holding(k, k)]
    /\ UNCHANGED allocVars

\* Object<T> h = MakeObject<T>(...), lines 121-133.
MakeObject(h) ==
    /\ ~handles[h].alive
    /\ HasFresh(heap)
    /\ LET k == Fresh(heap)
       IN  /\ heap' = NewHeader(heap, k, NULL)
           /\ handles' = [handles EXCEPT ![h] = Holding(k, k)]
    /\ UNCHANGED allocVars

\* Object(const Object &other), lines 40-45.
Object_Copy(h, other) ==
    /\ ~handles[h].alive
    /\ handles[other].alive
    /\ handles' = [handles EXCEPT
                     ![h] = Holding(handles[other].ptr_, handles[other].header_)]
    /\ heap' = Acquire(heap, handles[other].header_)
    /\ UNCHANGED allocVars

\* operator=(const Object &other), lines 47-63.
CopyAssign(h, other) ==
    /\ handles[h].alive
    /\ handles[other].alive
    /\ IF h = other
       THEN UNCHANGED <<handles, heap>>
       ELSE /\ handles' = [handles EXCEPT
                  ![h] = Holding(handles[other].ptr_, handles[other].header_)]
            /\ heap' = Acquire(Release(heap, handles[h].ptr_, handles[h].header_),
                               handles[other].header_)
    /\ UNCHANGED allocVars

\* Object(Object &&other), line 65.
Object_Move(h, other) ==
    /\ ~handles[h].alive
    /\ handles[other].alive
    /\ handles' = [handles EXCEPT
                     ![h] = Holding(handles[other].ptr_, handles[other].header_),
                     ![other] = Holding(NULL, NULL)]
    /\ UNCHANGED <<heap, allocVars>>

\* operator=(Object &&other), lines 67-77.
MoveAssign(h, other) ==
    /\ handles[h].alive
    /\ handles[other].alive
    /\ handles' = [handles EXCEPT ![h] = handles[other], ![other] = handles[h]]
    /\ UNCHANGED <<heap, allocVars>>

\* Reset(T *ptr), lines 89-92: a temporary Object(ptr) is move-assigned into
\* *this and then destroyed holding what *this held.
Reset(h) ==
    /\ handles[h].alive
    /\ HasFresh(heap)
    /\ LET k == Fresh(heap)
       IN  /\ handles' = [handles EXCEPT ![h] = Holding(k, k)]
           /\ heap' = Release(NewHeader(heap, k, k),
                              handles[h].ptr_, handles[h].header_)
    /\ UNCHANGED allocVars

\* the handle goes out of scope: ~Object(), lines 25-38.
Object_Destroy(h) ==
    /\ handles[h].alive
    /\ heap' = Release(heap, handles[h].ptr_, handles[h].header_)
    /\ handles' = [handles EXCEPT ![h] = [alive |-> FALSE, ptr_ |-> NULL,
                                          header_ |-> NULL]]
    /\ UNCHANGED allocVars

\* UseCount(), lines 99-105.
UseCount(h) ==
    IF handles[h].header_ = NULL THEN 0 ELSE heap[handles[h].header_].rc

ObjInit ==
    /\ handles = NoHandles
    /\ heap = NoObjects
    /\ poolSize = 0
    /\ psize = 0
    /\ regions = <<>>
    /\ mem = <<>>
    /\ firstPool_ = NULL
    /\ pc = "idle"
    /\ pool = NULL
    /\ size = 0
    /\ hist = <<>>
    /\ live = {}
    /\ handed = {}

ObjNext ==
    \/ \E h \in Handles : Object_Default(h)
    \/ \E h \in Handles : Object_Raw(h)
    \/ \E h \in Handles : MakeObject(h)
    \/ \E h, other \in Handles : Object_Copy(h, other)
    \/ \E h, other \in Handles : CopyAssign(h, other)
    \/ \E h, other \in Handles : Object_Move(h, other)
    \/ \E h, other \in Handles : MoveAssign(h, other)
    \/ \E h \in Handles : Reset(h)
    \/ \E h \in Handles : Object_Destroy(h)

ObjSpec == ObjInit /\ [][ObjNext]_vars

(* ------------------------- CalculateCapacity -------------------------- *)

CalculateCapacityNoAdjust(n, p) == Mul(p, Add(1, n \div p))

CalculateCapacity(n, p) ==
    LET cap == Mul(p, Add(1, n \div p))
    IN  IF n % p = 0 THEN Sub(cap, p) ELSE cap

(* ------------------------- FreeListMemoryPool ------------------------- *)

\* FreeListMemoryPool(): the default member initializers, then the body.
\* `this + sizeof(FreeListMemoryPool)` is arithmetic on FreeListMemoryPool *,
\* so it advances by sizeof(FreeListMemoryPool) objects; `freeListHead_ + 1`
\* advances by one Block.
PoolCtor(m, rs, this, cap) ==
    LET head == Add(this, Mul(SizeofPool, SizeofPool))
        m1 == Wr(m, Add(this, OffNextPool), NULL)
        m2 == Wr(m1, Add(this, OffHead), head)
        m3 == Wr(m2, Add(head, OffSize), Sub(cap, SizeofPool))
        m4 == Wr(m3, Add(head, OffNext), Add(head, SizeofBlock))
    IN  IF Mapped(rs, Add(this, OffNextPool)) /\ Mapped(rs, Add(this, OffHead))
           /\ Mapped(rs, Add(head, OffSize)) /\ Mapped(rs, Add(head, OffNext))
        THEN [out |-> "ok", mem |-> m4]
        ELSE [out |-> "segv", mem |-> m]

\* The search loop of Allocate (lines 168-174).  `seen` holds the blocks the
\* loop has already stepped over: memory does not change during the loop, so
\* coming back to one of them means the loop never ends.
RECURSIVE FindFit(_, _, _, _, _, _)
FindFit(m, rs, sz, prevBlock, block, seen) ==
    IF block = NULL
    THEN [out |-> "null", prevBlock |-> prevBlock, block |-> block]
    ELSE IF block \in seen
    THEN [out |-> "hang", prevBlock |-> prevBlock, block |-> block]
    ELSE IF ~Mapped(rs, Add(block, OffSize))
    THEN [out |-> "segv", prevBlock |-> prevBlock, block |-> block]
    ELSE IF Add(Rd(m, Add(block, OffSize)), SizeofBlock) < sz
    THEN IF ~Mapped(rs, Add(block, OffNext))
         THEN [out |-> "segv", prevBlock |-> prevBlock, block |-> block]
         ELSE FindFit(m, rs, sz, block, Rd(m, Add(block, OffNext)),
                      seen \cup {block})
    ELSE [out |-> "fit", prevBlock |-> prevBlock, block |-> block]

\* The split test of line 185.
SplitTest(blockSize, sz) == blockSize < Add(sz, SizeofBlock)

\* Lines 180-203, once the loop has stopped at a block.
TakeBlock(m, rs, this, sz, prevBlock, block) ==
    LET allocated == Add(block, SizeofBlock)
        bnext == Rd(m, Add(block, OffNext))
        bsize == Rd(m, Add(block, OffSize))
        split == SplitTest(bsize, sz)
        nextFreeBlock == IF split THEN Add(allocated, sz) ELSE bnext
        m1 == IF split
              THEN Wr(m, Add(nextFreeBlock, OffSize),
                      Sub(Sub(bsize, sz), SizeofBlock))
              ELSE m
        m2 == IF split
              THEN Wr(m1, Add(nextFreeBlock, OffNext), Rd(m1, Add(block, OffNext)))
              ELSE m1
        m3 == IF prevBlock # NULL
              THEN Wr(m2, Add(prevBlock, OffNext), nextFreeBlock)
              ELSE m2
        m4 == IF Rd(m3, Add(this, OffHead)) = block
              THEN Wr(m3, Add(this, OffHead), nextFreeBlock)
              ELSE m3
        m5 == Wr(m4, Add(block, OffNext), OCCUPIED_BLOCK)
        m6 == Wr(m5, Add(block, OffSize), Add(sz, SizeofBlock))
    IN  IF ~Mapped(rs, Add(block, OffNext))
        THEN [out |-> "segv", ptr |-> NULL, mem |-> m]
        ELSE IF split /\ ~(Mapped(rs, Add(nextFreeBlock, OffSize))
                           /\ Mapped(rs, Add(nextFreeBlock, OffNext)))
        THEN [out |-> "segv", ptr |-> NULL, mem |-> m]
        ELSE [out |-> "ptr", ptr |-> allocated, mem |-> m6]

\* FreeListMemoryPool::Allocate(size), on the pool at address `this`.
PoolAllocate(m, rs, this, sz) ==
    IF ~Mapped(rs, Add(this, OffHead))
    THEN [out |-> "segv", ptr |-> NULL, mem |-> m]
    ELSE LET f == FindFit(m, rs, sz, NULL, Rd(m, Add(this, OffHead)), {})
         IN  IF f.out = "fit"
             THEN TakeBlock(m, rs, this, sz, f.prevBlock, f.block)
             ELSE [out |-> f.out, ptr |-> NULL, mem |-> m]

\* The range test of line 236.
InPoolRange(this, ptr, cap) ==
    this <= ptr /\ Add(ptr, SizeofBlock) < Add(this, cap)

\* FreeListMemoryPool::VerifyPtr(ptr): "true", "false", or "segv" when the
\* load of block->next faults.  The function never loads through `this`.
PoolVerifyPtr(m, rs, this, ptr, cap) ==
    IF ptr = NULL THEN "false"
    ELSE IF ~Mapped(rs, Add(ptr, OffNext)) THEN "segv"
    ELSE IF Rd(m, Add(ptr, OffNext)) # OCCUPIED_BLOCK THEN "false"
    ELSE IF InPoolRange(this, ptr, cap) THEN "true" ELSE "false"

\* The push of lines 216-219.
PushBlock(m, this, block) ==
    Wr(Wr(m, Add(block, OffNext), Rd(m, Add(this, OffHead))),
       Add(this, OffHead), block)

\* FreeListMemoryPool::Free(ptr).
PoolFree(m, rs, this, ptr, cap) ==
    IF ptr = NULL THEN [out |-> "noop", mem |-> m]
    ELSE LET v == PoolVerifyPtr(m, rs, this, ptr, cap)
         IN  IF v = "segv" THEN [out |-> "segv", mem |-> m]
             ELSE IF v = "false" THEN [out |-> "noop", mem |-> m]
             ELSE IF ~Mapped(rs, Add(this, OffHead))
             THEN [out |-> "segv", mem |-> m]
             ELSE [out |-> "freed", mem |-> PushBlock(m, this, ptr)]

(* -------------------------- FreeListAllocator ------------------------- *)

Capacity == CalculateCapacity(poolSize, psize)

\* What mmap(NULL, cap, ...) of line 314 can return: MAP_FAILED, or the
\* address of a fresh zero-filled mapping.  A length of 0 is always refused.
MmapResults(rs, cap) ==
    {MAP_FAILED} \cup
    (IF cap > 0 /\ Len(rs) <= MaxMaps THEN {MapBase(Len(rs))} ELSE {})

\* The mappings after mmap returned r.
MmapRegions(rs, cap, r) ==
    IF r = MAP_FAILED THEN rs ELSE Append(rs, [base |-> r, len |-> cap])

\* The loop of FreeListAllocator::Free, entered with `pool`.  nullThis tells
\* whether VerifyPtr was called on a null pool; freedIn is the pool whose Free
\* was called.
RECURSIVE FreeWalk(_, _, _, _, _)
FreeWalk(m, rs, p, ptr, cap) ==
    IF p = NULL
    THEN [out |-> "returned", mem |-> m, nullThis |-> FALSE, freedIn |-> NULL]
    ELSE IF ~Mapped(rs, Add(p, OffNextPool))
    THEN [out |-> "segv", mem |-> m, nullThis |-> FALSE, freedIn |-> NULL]
    ELSE LET nxt == Rd(m, Add(p, OffNextPool))
             v == PoolVerifyPtr(m, rs, nxt, ptr, cap)
         IN  IF v = "segv"
             THEN [out |-> "segv", mem |-> m, nullThis |-> nxt = NULL,
                   freedIn |-> NULL]
             ELSE IF v = "true"
             THEN LET f == PoolFree(m, rs, nxt, ptr, cap)
                  IN  [out |-> IF f.out = "segv" THEN "segv" ELSE "returned",
                       mem |-> f.mem, nullThis |-> nxt = NULL, freedIn |-> nxt]
             ELSE LET r == FreeWalk(m, rs, nxt, ptr, cap)
                  IN  [r EXCEPT !.nullThis = r.nullThis \/ nxt = NULL]

\* one call: its argument, how it ended, what it returned, whether (for Free)
\* the argument was a live allocation when the call was made, and how many
\* mappings the process had when the call began
Call(op, arg, out, res) ==
    [op |-> op, arg |-> arg, out |-> out, res |-> res, wasLive |-> FALSE,
     maps0 |-> Len(regions)]

Last == hist[Len(hist)]

SetLast(h, out, res) == [h EXCEPT ![Len(h)].out = out, ![Len(h)].res = res]

\* requests of the callers: element counts and element sizes (sizeof(T))
AllocCounts == {0, 5, 63, 4048}
ElemSizes == {1, 8}
\* the caller's own memory, not owned by the allocator, and an unmapped address
CallerRegion == [base |-> MapBase(8), len |-> 4096]
ForeignPtr == CallerRegion.base + 64
WildPtr == MapBase(0) + 64
FreeArgs == {NULL, ForeignPtr, WildPtr}

PoolSizes == {0, 64, 4096, 4097, 16384}
PageSizes == {4096, 16384}

\* After a pool's Allocate returned r inside FreeListAllocator::Allocate:
\* leave the call with the pointer, stay in the while loop, or die.
AfterPoolAllocate(a, p, sz, h) ==
    /\ mem' = a.mem
    /\ IF a.out = "ptr"
       THEN /\ pc' = "idle"
            /\ hist' = SetLast(h, "ptr", a.ptr)
            /\ live' = live \cup {a.ptr}
            /\ handed' = handed \cup {a.ptr}
            /\ pool' = NULL
            /\ size' = 0
       ELSE /\ pc' = IF a.out = "null" THEN "growing" ELSE a.out
            /\ hist' = SetLast(h, IF a.out = "null" THEN "growing" ELSE a.out, NULL)
            /\ pool' = p
            /\ size' = sz
            /\ UNCHANGED <<live, handed>>

\* FreeListAllocator::Allocate<T>(count), lines 264-268: up to the first
\* pool->Allocate.
AllocateCall(count, elem) ==
    /\ pc = "idle"
    /\ Len(hist) < MaxCalls
    /\ LET sz == Mul(count, elem)
           a == PoolAllocate(mem, regions, firstPool_, sz)
       IN  AfterPoolAllocate(a, firstPool_, sz,
                             Append(hist, Call("Allocate", sz, "growing", NULL)))
    /\ UNCHANGED <<handles, heap, poolSize, psize, regions, firstPool_>>

\* One turn of the while loop of lines 270-280.
AllocateGrow ==
    /\ pc = "growing"
    /\ LET prevPool == pool
           nxt == Rd(mem, Add(prevPool, OffNextPool))
       IN  \E r \in (IF nxt = NULL THEN MmapResults(regions, Capacity) ELSE {nxt}) :
              LET rs == IF nxt = NULL THEN MmapRegions(regions, Capacity, r)
                        ELSE regions
                  m1 == IF nxt = NULL
                        THEN Wr(mem, Add(prevPool, OffNextPool), r)
                        ELSE mem
                  a == PoolAllocate(m1, rs, r, size)
              IN  /\ regions' = rs
                  /\ AfterPoolAllocate(a, r, size, hist)
    /\ UNCHANGED <<handles, heap, poolSize, psize, firstPool_>>

\* FreeListAllocator::Free(ptr), lines 285-296.
Free(ptr) ==
    /\ pc = "idle"
    /\ Len(hist) < MaxCalls
    /\ LET w == FreeWalk(mem, regions, firstPool_, ptr, Capacity)
       IN  /\ mem' = w.mem
           /\ pc' = IF w.out = "segv" THEN "segv" ELSE "idle"
           /\ hist' = Append(hist, [Call("Free", ptr, w.out, w.freedIn)
                                    EXCEPT !.wasLive = ptr \in live,
                                           !.out = IF w.nullThis /\ w.out = "returned"
                                                   THEN "returned_past_end"
                                                   ELSE w.out])
    /\ live' = live \ {ptr}
    /\ UNCHANGED <<handles, heap, poolSize, psize, regions, firstPool_, pool, size, handed>>

\* munmap(addr, len): the mappings that lie inside [addr, addr + len) go.
\* An address that is not page-aligned (MAP_FAILED) or a length of 0 is
\* refused and nothing is unmapped.
Munmap(rs, addr, len, page) ==
    LET Keep(r) == ~(addr <= r.base /\ r.base + r.len <= addr + len)
    IN  IF addr % page = 0 /\ len > 0 THEN SelectSeq(rs, Keep) ELSE rs

\* ~FreeListAllocator(), lines 253-256.
Destroy ==
    /\ pc = "idle"
    /\ pc' = "destroyed"
    /\ regions' = Munmap(regions, firstPool_, Capacity, psize)
    /\ mem' = [a \in {x \in DOMAIN mem : Mapped(regions', x)} |-> mem[a]]
    /\ UNCHANGED <<handles, heap, poolSize, psize, firstPool_, pool, size, hist, live, handed>>

\* FreeListAllocator(): firstPool_ = CreateNewPool() (line 309), then the
\* constructor body (lines 246-251), which throws only on a null firstPool_.
\* FreeListAllocator::VerifyPtr, lines 298-305: the body discards its argument
\* and returns false.
VerifyPtr(ptr) == "false"

InPoolPtr == MapBase(1) + 64

VerifyArgs == {NULL, ForeignPtr, InPoolPtr}

VerifyPtrCall(ptr) ==
    /\ pc = "idle"
    /\ Len(hist) < MaxCalls
    /\ hist' = Append(hist, [Call("VerifyPtr", ptr, VerifyPtr(ptr), NULL)
                             EXCEPT !.wasLive = ptr \in live])
    /\ UNCHANGED <<handles, heap, poolSize, psize, regions, mem, firstPool_, pc, pool, size,
                   live, handed>>

Init ==
    /\ poolSize \in PoolSizes
    /\ psize \in PageSizes
    /\ \E r \in MmapResults(<<CallerRegion>>, CalculateCapacity(poolSize, psize)) :
          /\ firstPool_ = r
          /\ regions = MmapRegions(<<CallerRegion>>,
                                   CalculateCapacity(poolSize, psize), r)
          /\ pc = IF r = NULL THEN "bad_alloc" ELSE "idle"
    /\ mem = [x \in {} |-> 0]
    /\ pool = NULL
    /\ size = 0
    /\ hist = <<>>
    /\ live = {}
    /\ handed = {}
    /\ handles = NoHandles
    /\ heap = NoObjects

Next ==
    \/ \E c \in AllocCounts, e \in ElemSizes : AllocateCall(c, e)
    \/ AllocateGrow
    \/ \E p \in FreeArgs \cup handed : Free(p)
    \/ \E p \in VerifyArgs \cup handed : VerifyPtrCall(p)
    \/ Destroy

Spec == Init /\ [][Next]_vars

(* ----------------- FreeListMemoryPool as a class alone ---------------- *)

PoolAllocSizes == {8, 24, 4096}
PoolBase == MapBase(1)
PoolCapacity == CalculateCapacity(64, 4096)
PoolRegion == [base |-> PoolBase, len |-> PoolCapacity]
\* memory of somebody else that may lie directly behind the pool's mapping
NeighbourRegion == [base |-> PoolBase + PoolCapacity, len |-> 4096]

Pool_Allocate(sz) ==
    /\ pc = "idle"
    /\ Len(hist) < MaxCalls
    /\ LET a == PoolAllocate(mem, regions, firstPool_, sz)
       IN  /\ mem' = a.mem
           /\ pc' = IF a.out \in {"segv", "hang"} THEN a.out ELSE "idle"
           /\ hist' = Append(hist, Call("Allocate", sz, a.out, a.ptr))
           /\ live' = IF a.out = "ptr" THEN live \cup {a.ptr} ELSE live
           /\ handed' = IF a.out = "ptr" THEN handed \cup {a.ptr} ELSE handed
    /\ UNCHANGED <<handles, heap, poolSize, psize, regions, firstPool_, pool, size>>

Pool_Free(ptr) ==
    /\ pc = "idle"
    /\ Len(hist) < MaxCalls
    /\ LET f == PoolFree(mem, regions, firstPool_, ptr, Capacity)
       IN  /\ mem' = f.mem
           /\ pc' = IF f.out = "segv" THEN "segv" ELSE "idle"
           /\ hist' = Append(hist, [Call("Free", ptr, f.out, NULL)
                                    EXCEPT !.wasLive = ptr \in live])
    /\ live' = live \ {ptr}
    /\ UNCHANGED <<handles, heap, poolSize, psize, regions, firstPool_, pool, size, handed>>

PoolInit ==
    /\ poolSize = 64
    /\ psize = 4096
    /\ regions \in {<<CallerRegion, PoolRegion>>,
                    <<CallerRegion, PoolRegion, NeighbourRegion>>}
    /\ firstPool_ = PoolBase
    /\ LET c == PoolCtor([x \in {} |-> 0], regions, PoolBase, PoolCapacity)
       IN  /\ mem = c.mem
           /\ pc = IF c.out = "ok" THEN "idle" ELSE c.out
    /\ pool = NULL
    /\ size = 0
    /\ hist = <<>>
    /\ live = {}
    /\ handed = {}
    /\ handles = NoHandles
    /\ heap = NoObjects

PoolNext ==
    \/ \E sz \in PoolAllocSizes : Pool_Allocate(sz)
    \/ \E p \in {NULL, ForeignPtr} \cup handed : Pool_Free(p)

PoolSpec == PoolInit /\ [][PoolNext]_vars

(* ------------- the allocator over constructed pool objects ------------ *)
(* Allocate can only hand out memory from a pool whose free list has been  *)
(* set up.  ConstructedSpec is the allocator with FreeListMemoryPool()     *)
(* run on every mapping CreateNewPool returns, the object the methods of   *)
(* lines 261-296 and the destructor are written for.  It differs from Spec *)
(* in nothing else; Spec is the code as it stands, where that constructor  *)
(* is never called and no Allocate ever returns.                           *)

ConstructedCounts == {8, 24}

\* CreateNewPool() followed by the pool's constructor.
ConstructPool(m, rs, r, cap) ==
    IF r = MAP_FAILED THEN [out |-> "ok", mem |-> m] ELSE PoolCtor(m, rs, r, cap)

AllocateGrowConstructed ==
    /\ pc = "growing"
    /\ LET prevPool == pool
           nxt == Rd(mem, Add(prevPool, OffNextPool))
       IN  \E r \in (IF nxt = NULL THEN MmapResults(regions, Capacity) ELSE {nxt}) :
              LET rs == IF nxt = NULL THEN MmapRegions(regions, Capacity, r)
                        ELSE regions
                  c == IF nxt = NULL
                       THEN ConstructPool(mem, rs, r, Capacity)
                       ELSE [out |-> "ok", mem |-> mem]
                  m1 == IF nxt = NULL
                        THEN Wr(c.mem, Add(prevPool, OffNextPool), r)
                        ELSE mem
                  a == PoolAllocate(m1, rs, r, size)
              IN  /\ regions' = rs
                  /\ AfterPoolAllocate(a, r, size, hist)
    /\ UNCHANGED <<handles, heap, poolSize, psize, firstPool_>>

ConstructedInit ==
    /\ poolSize = 64
    /\ psize = 4096
    /\ firstPool_ = MapBase(1)
    /\ regions = MmapRegions(<<CallerRegion>>, CalculateCapacity(64, 4096), MapBase(1))
    /\ LET c == PoolCtor([x \in {} |-> 0], regions, MapBase(1),
                         CalculateCapacity(64, 4096))
       IN  /\ mem = c.mem
           /\ pc = IF c.out = "ok" THEN "idle" ELSE c.out
    /\ pool = NULL
    /\ size = 0
    /\ hist = <<>>
    /\ live = {}
    /\ handed = {}
    /\ handles = NoHandles
    /\ heap = NoObjects

ConstructedNext ==
    \/ \E c \in ConstructedCounts : AllocateCall(c, 1)
    \/ AllocateGrowConstructed
    \/ \E p \in {NULL} \cup handed : Free(p)
    \/ \E p \in {NULL} \cup handed : VerifyPtrCall(p)
    \/ Destroy

ConstructedSpec == ConstructedInit /\ [][ConstructedNext]_vars

(* ------------------------------ claims -------------------------------- *)

IsAlloc(c) == c.op = "Allocate"
Returned(c) == c.op = "Allocate" /\ c.out = "ptr"
VerifyNow(p) == PoolVerifyPtr(mem, regions, firstPool_, p, Capacity)

\* C1: round trip at pool level.  Right after a successful pool Allocate(n),
\* n > 0, returning P, VerifyPtr(P) is true; right after Free(P) of a live P,
\* VerifyPtr(P) is false.
C1_RoundTrip ==
    hist # <<>> =>
      /\ (Returned(Last) /\ Last.arg > 0) => VerifyNow(Last.res) = "true"
      /\ (Last.op = "Free" /\ Last.wasLive /\ pc = "idle")
            => VerifyNow(Last.arg) = "false"

\* the first pool can hold exactly one block of payload size s
HoldsExactlyOne(s) ==
    /\ s > 0
    /\ s + SizeofBlock <= Capacity - SizeofPool
    /\ 2 * (s + SizeofBlock) > Capacity - SizeofPool

InRegion(p, r) == r.base <= p /\ p < r.base + r.len

\* C2: exhaustion then growth.  With a first pool that holds exactly one
\* block of size S, the first Allocate(S) returns a pointer inside the first
\* pool; a second Allocate(S) returns a pointer inside another, newly mapped
\* pool, not overlapping the first payload.
C2_ExhaustionThenGrowth ==
    (firstPool_ # MAP_FAILED /\ Len(hist) >= 1 /\ IsAlloc(hist[1])
       /\ HoldsExactlyOne(hist[1].arg))
    => /\ hist[1].out = "ptr"
       /\ InRegion(hist[1].res, regions[2])
       /\ (Len(hist) >= 2 /\ IsAlloc(hist[2]) /\ hist[2].arg = hist[1].arg)
            => /\ hist[2].out = "ptr"
               /\ \E i \in 3..Len(regions) : InRegion(hist[2].res, regions[i])
               /\ \/ hist[2].res >= hist[1].res + hist[1].arg
                  \/ hist[1].res >= hist[2].res + hist[2].arg

\* C3: split arithmetic.  Two consecutive successful allocations s1, s2 from
\* a freshly constructed pool (both with their headers fitting): the second
\* address is the first plus s1 plus one block header.
C3_SplitArithmetic ==
    (Len(hist) >= 2 /\ Returned(hist[1]) /\ Returned(hist[2])
       /\ hist[1].arg > 0 /\ hist[2].arg > 0
       /\ hist[1].arg + hist[2].arg + 2 * SizeofBlock <= Capacity - SizeofPool)
    => hist[2].res = hist[1].res + hist[1].arg + SizeofBlock

\* C4: list reuse.  Allocate(n) returning P, then Free(P), then Allocate(m)
\* with 0 < m <= n: the last call succeeds and returns P again.
C4_ListReuse ==
    \A i \in 1..Len(hist) :
      (i + 2 <= Len(hist) /\ Returned(hist[i]) /\ hist[i + 1].op = "Free"
         /\ hist[i + 1].arg = hist[i].res /\ hist[i + 1].wasLive
         /\ IsAlloc(hist[i + 2])
         /\ 0 < hist[i + 2].arg /\ hist[i + 2].arg <= hist[i].arg)
      => (hist[i + 2].out = "ptr" /\ hist[i + 2].res = hist[i].res)

\* C5: invalid free is safe.  A Free of null, of a pointer that is not a live
\* allocation (freed before), or of an address outside the pool returns
\* normally and leaves memory (free-list head, block links and sizes, pool
\* links) as it was.
C5_InvalidFreeIsSafe ==
    [][(Len(hist') = Len(hist) + 1 /\ hist'[Len(hist')].op = "Free"
          /\ ~hist'[Len(hist')].wasLive)
       => (mem' = mem /\ pc' = "idle")]_vars

\* C6: Allocator.Free(P) of a live P gives the block back to the pool that
\* owns P (whatever its place in the chain), and the walk over the chain
\* never goes on past its last pool.
C6_FreeFindsOwner ==
    \A i \in 1..Len(hist) :
      hist[i].op = "Free" =>
        /\ hist[i].out # "returned_past_end"
        /\ hist[i].wasLive =>
             \E k \in 2..Len(regions) :
                InRegion(hist[i].arg, regions[k]) /\ hist[i].res = regions[k].base

\* C7: a zero-size request is rejected.  Allocate with count * sizeof(T) = 0
\* returns null at once: it never searches a pool and never grows the chain.
C7_ZeroSizeRejected ==
    (hist # <<>> /\ IsAlloc(Last) /\ Last.arg = 0 /\ firstPool_ # MAP_FAILED)
    => (pc = "idle" /\ Last.out = "null" /\ Len(regions) = 2)

\* C8: every call returns.  No call is left in a loop that cannot end: the
\* search of a pool's free list never runs in a circle, and the while loop
\* of Allocate is not still running after it has tried a pool that this very
\* call mapped (every later fresh pool would treat the same request the same
\* way).
C8_EveryCallReturns ==
    /\ pc # "hang"
    /\ pc = "growing" =>
          \A i \in 1..Len(regions) : i > Last.maps0 => regions[i].base # pool

\* C9: capacity rounding.  The capacity is the configured size when that is
\* an exact multiple of the page size, otherwise the smallest multiple of the
\* page size above it; every pool mapped, growth pools too, has that length.
C9_CapacityRounding ==
    /\ IF poolSize % psize = 0
       THEN Capacity = poolSize
       ELSE /\ Capacity % psize = 0
            /\ Capacity > poolSize
            /\ Capacity - psize < poolSize
    /\ \A i \in 2..Len(regions) :
          /\ regions[i].len = Capacity
          /\ (poolSize % psize = 0 => regions[i].len = poolSize)
          /\ (poolSize % psize # 0 => regions[i].len = (poolSize \div psize + 1) * psize)

C9_Witness ==
    /\ Len(regions) >= 4
    /\ poolSize % psize # 0
    /\ pc = "growing"

\* C10: growth-time mapping failure.  When mmap refuses a new pool inside
\* Allocate, the call returns null without a fault, and the failure value is
\* neither linked into the chain nor used as a pool.
C10_GrowthFailureIsNull ==
    firstPool_ # MAP_FAILED =>
      /\ \A i \in 2..Len(regions) :
            Rd(mem, Add(regions[i].base, OffNextPool)) # MAP_FAILED
      /\ pool # MAP_FAILED
      /\ (hist # <<>> /\ IsAlloc(Last)) => pc # "segv"

\* C11: construction-time mapping failure.  When mmap fails for the first
\* pool, the constructor throws bad_alloc: no allocator whose first pool is the
\* failure value exists.
C11_ConstructionFailureThrows ==
    firstPool_ = MAP_FAILED => pc = "bad_alloc"

RECURSIVE ChainVerify(_, _, _, _, _, _)
ChainVerify(m, rs, p, ptr, cap, seen) ==
    IF p = NULL \/ p \in seen THEN "false"
    ELSE LET v == PoolVerifyPtr(m, rs, p, ptr, cap)
         IN  IF v \in {"true", "segv"} THEN v
             ELSE ChainVerify(m, rs, Rd(m, Add(p, OffNextPool)), ptr, cap,
                              seen \cup {p})

\* C13: the allocator-level VerifyPtr.  Whenever the last call was
\* VerifyPtr(ptr), its answer is true for a pointer Allocate returned that is
\* not yet freed, and it is true exactly when some pool of the chain accepts
\* ptr in its own VerifyPtr.
C13_AllocatorVerifyIsUnion ==
    (hist # <<>> /\ Last.op = "VerifyPtr") =>
        /\ Last.wasLive => Last.out = "true"
        /\ (Last.out = "true") <=>
              (ChainVerify(mem, regions, firstPool_, Last.arg, Capacity, {}) = "true")

\* The chain of blocks from `block` on is finite, acyclic, ends in null, and
\* every block header on it lies inside [this, this + cap).
RECURSIVE ListWellFormed(_, _, _, _, _)
ListWellFormed(m, this, cap, block, seen) ==
    IF block = NULL THEN TRUE
    ELSE IF block \in seen THEN FALSE
    ELSE IF ~(this <= block /\ block + SizeofBlock <= this + cap) THEN FALSE
    ELSE ListWellFormed(m, this, cap, Rd(m, Add(block, OffNext)),
                        seen \cup {block})

\* C14: free-list well-formedness.  In every state reached by Allocate and
\* Free calls, valid or not, the pool's free list from its head is a finite
\* acyclic chain ending in null whose block headers all lie inside the pool's
\* mapped region.
C14_FreeListWellFormed ==
    ListWellFormed(mem, firstPool_, Capacity,
                   Rd(mem, Add(firstPool_, OffHead)), {})

\* C15: fresh-pool state.  A pool the allocator has just put into its chain
\* (here the first pool, before any call) has a free list of exactly one
\* block, directly after the pool's own header, whose size is the mapped
\* capacity minus the pool header and whose next link is null.
C15_FreshPoolState ==
    (hist = <<>> /\ pc = "idle" /\ firstPool_ # MAP_FAILED) =>
        LET head == Rd(mem, Add(firstPool_, OffHead))
        IN  /\ head = Add(firstPool_, SizeofPool)
            /\ Rd(mem, Add(head, OffSize)) = Sub(Capacity, SizeofPool)
            /\ Rd(mem, Add(head, OffNext)) = NULL

\* C16: split rule of pool Allocate(n) on the chosen free block B.  On every
\* step in which Allocate(n) returns a pointer: when B.size - n - header can
\* host a header, a free block of exactly that leftover size stands directly
\* after the n payload bytes and takes B's place in the list (B's former
\* successor behind it); otherwise the slot that linked to B (the pool head or
\* the predecessor's next) links to B's former successor.  Nothing else in
\* memory changes besides B's own header.
C16_SplitRule ==
    [][ (Len(hist') = Len(hist) + 1 /\ Returned(hist'[Len(hist')])) =>
          LET n == hist'[Len(hist')].arg
              B == Sub(hist'[Len(hist')].res, SizeofBlock)
              bsize == Rd(mem, Add(B, OffSize))
              bnext == Rd(mem, Add(B, OffNext))
              f == FindFit(mem, regions, n, NULL,
                           Rd(mem, Add(firstPool_, OffHead)), {})
              slot == IF f.prevBlock = NULL THEN Add(firstPool_, OffHead)
                      ELSE Add(f.prevBlock, OffNext)
              R == Add(Add(B, SizeofBlock), n)
              splits == bsize >= n + SizeofBlock + SizeofBlock
              touched == {Add(B, OffNext), Add(B, OffSize), slot}
                         \cup (IF splits THEN {Add(R, OffNext), Add(R, OffSize)}
                               ELSE {})
          IN  /\ f.block = B
              /\ splits => /\ Rd(mem', Add(R, OffSize)) = bsize - n - SizeofBlock
                           /\ Rd(mem', Add(R, OffNext)) = bnext
              /\ Rd(mem', slot) = IF splits THEN R ELSE bnext
              /\ \A a \in (DOMAIN mem \cup DOMAIN mem') \ touched :
                    Rd(mem', a) = Rd(mem, a)
      ]_vars

\* Addresses that are not the pointer of an occupied allocation: one in pool
\* memory no Allocate ever reached, and the interior word of each live
\* allocation.
NotHandedOut == ({InPoolPtr} \cup {Add(p, OffSize) : p \in live}) \ live

\* C17: pool VerifyPtr rejects what was never handed out.  For every address
\* that is not the pointer of a currently occupied allocation of the pool,
\* VerifyPtr answers false.
C17_VerifyRejectsNotHandedOut ==
    pc = "idle" => \A a \in NotHandedOut : VerifyNow(a) = "false"

\* The blocks on the chain from `block` on (stopping at a repeated block).
RECURSIVE ListBlocks(_, _, _)
ListBlocks(m, block, seen) ==
    IF block = NULL \/ block \in seen THEN seen
    ELSE ListBlocks(m, Rd(m, Add(block, OffNext)), seen \cup {block})

\* Calls of the history whose allocation is still live: Allocate returned a
\* pointer and no later Free was given it.
LiveAllocs ==
    {i \in 1..Len(hist) :
        /\ Returned(hist[i])
        /\ ~\E j \in (i + 1)..Len(hist) :
              hist[j].op = "Free" /\ hist[j].arg = hist[i].res}

OnlyValidFrees ==
    \A i \in 1..Len(hist) : hist[i].op = "Free" => hist[i].wasLive

Disjoint(a, alen, b, blen) == a + alen <= b \/ b + blen <= a

\* C18: live allocations never overlap and stay in bounds.  After Allocate
\* and valid Free calls, the payload [P, P + n) of every live allocation lies
\* inside the pool's mapped region, is disjoint from the payload of every
\* other live allocation, and is disjoint from the header of every block on
\* the free list.
C18_LiveAllocationsDisjoint ==
    (pc = "idle" /\ OnlyValidFrees) =>
        \A i \in LiveAllocs :
            LET P == hist[i].res
                n == hist[i].arg
            IN  /\ firstPool_ <= P /\ P + n <= firstPool_ + Capacity
                /\ \A j \in LiveAllocs \ {i} :
                      Disjoint(P, n, hist[j].res, hist[j].arg)
                /\ \A b \in ListBlocks(mem, Rd(mem, Add(firstPool_, OffHead)), {}) :
                      Disjoint(P, n, b, SizeofBlock)

(* ------------------------- claims on Object<T> ------------------------- *)

LiveHandles == {h \in Handles : handles[h].alive}
Sharing(k) == {h \in LiveHandles : handles[h].ptr_ = k}

\* C19: the managed object is destroyed exactly once.  An object some live
\* handle still refers to has not been destroyed, and an object whose last
\* handle has been released has had its destructor run exactly once.
C19_DestroyedExactlyOnce ==
    \A k \in Objects :
        heap[k].made => heap[k].dtors = (IF Sharing(k) = {} THEN 1 ELSE 0)

\* C20: UseCount.  For every live handle, UseCount() is 0 when the handle is
\* empty and otherwise the number of live handles that share its managed
\* object.
C20_UseCountIsShareCount ==
    \A h \in LiveHandles :
        UseCount(h) = IF handles[h].ptr_ = NULL THEN 0
                      ELSE Cardinality(Sharing(handles[h].ptr_))

\* Two handles share one object after a copy while a third, emptied by a
\* move or never filled, reports 0.
C20_Witness ==
    \E a, b, c \in LiveHandles :
        /\ a # b
        /\ handles[a].header_ # NULL
        /\ handles[a].header_ = handles[b].header_
        /\ UseCount(a) = 2
        /\ handles[c].header_ = NULL

====
